---- MODULE Spec2Model ----
(***************************************************************************)
(* A model of comfy_ui_utilities: the local mirror copy                    *)
(* (commands/mirror_copy.py), the HTTP download (commands/download.py) and *)
(* the argument parsing of the remote mirror                               *)
(* (commands/mirror_copy_remote.py).                                       *)
(*                                                                         *)
(* Sizes are in bytes.  Modification times are in ticks, TicksPerSecond    *)
(* ticks to the second, so that st_mtime has a sub-second part which       *)
(* int() cuts off.                                                         *)
(***************************************************************************)
EXTENDS Integers, Sequences, FiniteSets, TLC

\* ------------------------------------------------------------------ bounds
\* file sizes are 0 .. MaxHalfChunks halves of a read block
MaxHalfChunks == 3
\* resolution of st_mtime: ticks per second
TicksPerSecond == 2
\* modification times of the comparator's inputs are -MaxMtime .. MaxMtime ticks
MaxMtime == 2
\* I/O errors the environment may inject into one behaviour
MaxFaults == 2
\* mirror runs in a row over the same source
MaxRuns == 2
\* I/O and network errors the environment may inject into the downloads
MaxNetFaults == 1
\* segments of the path of the url
MaxSegments == 3
\* characters of the destination argument of mirror_copy_remote
MaxSpecLen == 5
\* read blocks in the body that overlapping downloads receive
MaxBlocks == 2
\* the days argument of remove_unused_models is 0 .. MaxDays
MaxDays == 2

\* ------------------------------------------------------- program constants
\* s.read(1024 * 1024)
ChunkSize == 1048576

HalfChunk == ChunkSize \div 2
Sizes == {k * HalfChunk : k \in 0..MaxHalfChunks}
Mtimes == (0 - MaxMtime)..MaxMtime
\* the modification times of the files of a tree: two different seconds
TreeMtimes == {MaxMtime - 1, MaxMtime}
\* the clock when the run writes a file: later than every mtime of the trees
WriteTime == TicksPerSecond * (MaxMtime + 1)

Min(a, b) == IF a < b THEN a ELSE b
Max(a, b) == IF a > b THEN a ELSE b

\* ------------------------------------------------------- filesystem entries
\* What os.stat and a read of a path give.  data names the bytes: "S" is a
\* prefix (of length size) of the bytes of the source file of the same
\* relative path, "O" is other bytes.
Absent == [kind |-> "absent", size |-> 0, mtime |-> 0, data |-> "none"]
File(s, m, d) == [kind |-> "file", size |-> s, mtime |-> m, data |-> d]
Dir(s, m) == [kind |-> "dir", size |-> s, mtime |-> m, data |-> "none"]

\* Python's int() of a float: truncation toward zero
int(t) == IF t >= 0 THEN t \div TicksPerSecond ELSE 0 - ((0 - t) \div TicksPerSecond)

\* a comparator that compares the raw st_mtime values
needs_copy_raw_mtime(s, d, statErr) ==
    IF d.kind = "absent" THEN TRUE
    ELSE IF statErr THEN TRUE
    ELSE ~(s.size = d.size /\ s.mtime = d.mtime)

\* a needs_copy that skips the file when os.stat raises
needs_copy_fail_closed(s, d, statErr) ==
    IF d.kind = "absent" THEN TRUE
    ELSE IF statErr THEN FALSE
    ELSE ~(s.size = d.size /\ int(s.mtime) = int(d.mtime))

\* mirror_copy.needs_copy(src, dst): s and d are the entries at src and dst,
\* statErr says that os.stat raises OSError
needs_copy(s, d, statErr) ==
    IF d.kind = "absent" THEN TRUE
    ELSE IF statErr THEN TRUE
    ELSE ~(s.size = d.size /\ int(s.mtime) = int(d.mtime))

VARIABLES
    \* the comparator called on its own
    cmpSrc, cmpDst, cmpErr, cmpCalled, cmpOut,
    \* mirror_copy: the arguments and the two trees
    srcKind,         \* source_folder: "empty" (None or ""), "missing", "file", "dir"
    dstRoot,         \* destination_folder: "empty", "absent", "file", "dir"
    src,             \* the files under source_folder, by relative path
    dst,             \* the entries under destination_folder, by relative path
    dstRoot0, dst0,  \* the destination when the current run started
    \* mirror_copy: the locals of the run
    mpc,             \* where the run is
    files_to_copy, total_bytes,
    progress_n,      \* tqdm's progress.n
    idx,             \* position of the copy loop in files_to_copy
    off,             \* bytes of the current file read so far
    err,             \* the exception mirror_copy raised, or "none"
    stat_errs,       \* the files whose os.stat raised while this run planned
    result,          \* how the copy of each planned file ended in this run
    prevOk,          \* the run before this one returned with every planned copy done
    ioError,         \* an OSError was raised (caught or not) in this behaviour
    faults,          \* I/O errors injected so far
    run,
    \* download_file: the arguments, shared by the calls
    url_parts,       \* urlparse(url).path.split('/')
    folderArg,       \* folder: "<None>", or a string
    \* download_file: the filesystem under model_folder
    catDir,          \* the kind of model_folder/<folder>
    files,           \* the entries in it, by name
    \* download_file: per call
    dpc,             \* where the call is
    catDir0, files0, \* the filesystem when the call started
    resp,            \* the response to the call's GET
    recv,            \* bytes of the body the call has read
    derr,            \* the exception the call raised, or "none"
    gets,            \* GET requests the call issued
    reads,           \* reads of the response body the call issued
    replaced,        \* os.replace calls that succeeded
    dfaults,
    \* mirror_copy_remote: the arguments, as sequences of characters
    r_source, r_dest,
    \* mirror_copy_remote: the locals
    rpc,             \* where the call is
    rerr,            \* the exception the call raised, or "none"
    rline,           \* the line of the raise, or 0
    ssh_connection, remote_destination,
    ssh_cmd,         \* the command given to subprocess.Popen, or <<>>
    return_code,
    \* overlapping download_file calls: the directory and the inodes
    ofile,           \* the filename of each call
    obody,           \* blocks in the body of each filename's url
    odir,            \* name -> inode, 0 when no such name
    inode,           \* inode -> its blocks
    \* overlapping download_file calls: the locals of each call
    opc, ofd, opos, oerr, ofaults,
    \* remove_unused_models: the folder
    u_folder, u_files, u_files0, u_days,
    \* remove_unused_models: the locals
    upc, u_stat_errs, paths, removed_models, uerr, ufaults

cvars == <<cmpSrc, cmpDst, cmpErr, cmpCalled, cmpOut>>
mvars == <<srcKind, dstRoot, src, dst, dstRoot0, dst0, mpc, files_to_copy,
           total_bytes, progress_n, idx, off, err, stat_errs, result, prevOk,
           ioError, faults, run>>

dvars == <<url_parts, folderArg, catDir, files, dpc, catDir0, files0, resp, recv,
           derr, gets, reads, replaced, dfaults>>

rvars == <<r_source, r_dest, rpc, rerr, rline, ssh_connection, remote_destination,
           ssh_cmd, return_code>>

ovars == <<ofile, obody, odir, inode, opc, ofd, opos, oerr, ofaults>>

uvars == <<u_folder, u_files, u_files0, u_days, upc, u_stat_errs, paths,
           removed_models, uerr, ufaults>>

vars == <<cvars, mvars, dvars, rvars, ovars, uvars>>

OverlapIdle ==
    /\ ofile = <<>> /\ obody = <<>> /\ odir = <<>> /\ inode = <<>>
    /\ opc = <<>> /\ ofd = <<>> /\ opos = <<>> /\ oerr = <<>> /\ ofaults = 0

UnusedIdle ==
    /\ u_folder = "empty" /\ u_files = <<>> /\ u_files0 = <<>> /\ u_days = 0
    /\ upc = "idle" /\ u_stat_errs = {} /\ paths = <<>> /\ removed_models = <<>>
    /\ uerr = "none" /\ ufaults = 0

RemoteIdle ==
    /\ r_source = <<>> /\ r_dest = <<>> /\ rpc = "idle" /\ rerr = "none" /\ rline = 0
    /\ ssh_connection = <<>> /\ remote_destination = <<>> /\ ssh_cmd = <<>>
    /\ return_code = 0

\* the state of a part of the program that a specification does not run
CmpIdle ==
    /\ cmpSrc = Absent /\ cmpDst = Absent /\ cmpErr = FALSE
    /\ cmpCalled = FALSE /\ cmpOut = FALSE

\* -------------------------------------------- mirror_copy: the two trees
\* the files os.walk(source_folder) finds, in the order it yields them
WalkOrder == <<"a", "sub/b">>
SrcPaths == {"a", "sub/b"}
\* the relative paths of the destination the model tracks: "c" has no
\* counterpart in the source, "a/a" exists when a directory stands at "a"
DstPaths == {"a", "a/a", "sub", "sub/b", "c"}
DstFilePaths == {"a", "a/a", "sub/b", "c"}
\* "" is destination_folder itself
Parent(p) == CASE p = "sub/b" -> "sub" [] p = "a/a" -> "a" [] OTHER -> ""
\* os.path.join(dst, os.path.basename(src)) of shutil.copy2 onto a directory
Inside(p) == IF p = "a" THEN "a/a" ELSE p

NoResult == [p \in SrcPaths |-> "none"]
\* the ends of a copy that leave the file and its times at dst_path:
\* "none" (not planned), "copied" (lines 59-67), "fallback" (line 74);
\* the others are "nostat" (line 68), "intodir" (line 74, into a directory)
\* and "failed" (line 55 or line 79)
Done == {"none", "copied", "fallback"}

MirrorIdle ==
    /\ srcKind = "empty" /\ dstRoot = "empty"
    /\ src = [p \in SrcPaths |-> Absent] /\ dst = [p \in DstPaths |-> Absent]
    /\ dstRoot0 = "empty" /\ dst0 = [p \in DstPaths |-> Absent]
    /\ mpc = "idle" /\ files_to_copy = <<>> /\ total_bytes = 0 /\ progress_n = 0
    /\ idx = 0 /\ off = 0 /\ err = "none" /\ stat_errs = {} /\ result = NoResult
    /\ prevOk = FALSE /\ ioError = FALSE /\ faults = 0 /\ run = 0

\* -------------------------------------------------------------- download_file
ALLOWED_FOLDERS == {"diffusion_models", "vae", "text_encoders", "loras", "controlnet",
                    "checkpoints", "model_patches", "clip_vision", "upscale_models",
                    "audio_encoders", "unet", "latent_upscale_models"}

\* download_file called twice for the same url: the first call and the second
Calls == {1, 2}
Segments == {"", "vae", "unknown_kind", "file.bin"}
\* the split paths of the urls: "" alone for an empty path, else a first
\* empty segment for the leading "/"
UrlPaths ==
    {<<"">>} \cup
    {q \in UNION {[1..n -> Segments] : n \in 2..MaxSegments} : q[1] = ""}
FolderArgs == {"<None>", "", "loras", "bogus"}

\* the segment before the last in place of url_parts[-2]
url_folder_last(parts) == parts[Len(parts)]

\* line 28: url_parts[-2]
url_folder(parts) == parts[Len(parts) - 1]

\* line 26: not folder
no_folder(f) == f \in {"<None>", ""}

\* lines 26-28: the folder the file goes to; "IndexError" stands for the
\* exception of url_parts[-2] on a list of one
folder_of(parts, f) ==
    IF no_folder(f)
    THEN (IF Len(parts) >= 2 THEN url_folder(parts) ELSE "IndexError")
    ELSE f

\* lines 36-38: os.path.basename(path) or "downloaded.file"
filename_of(parts) ==
    IF parts[Len(parts)] = "" THEN "downloaded.file" ELSE parts[Len(parts)]

\* a staging name that is the name of the destination
temp_name_dest(name) == name

\* line 50: the name of temp_path
temp_name(name) == "_incomplete_" \o name

Filenames == {filename_of(q) : q \in UrlPaths}
Names == Filenames \cup {temp_name(f) : f \in Filenames}

DestName == filename_of(url_parts)
TempName == temp_name(DestName)

\* the bytes of a downloaded file: the first size bytes of the body of the
\* response to call c; 0 stands for bytes of before the calls
Body(c, size) == [kind |-> "file", size |-> size, mtime |-> 0, data |-> c]
OldFiles == {Body(0, HalfChunk)}

NoResp == [status |-> 0, has_length |-> FALSE, length |-> 0, body |-> 0]
\* a response: its status, its content-length header if any, the length of
\* its body as iter_content delivers it
Responses ==
    {[status |-> 404, has_length |-> FALSE, length |-> 0, body |-> 0]} \cup
    \* no content-length header
    {[status |-> 200, has_length |-> FALSE, length |-> 0, body |-> b] : b \in Sizes} \cup
    \* the content-length is the length of the body
    {[status |-> 200, has_length |-> TRUE, length |-> b, body |-> b] : b \in Sizes} \cup
    \* a content-encoding: the content-length is not the length of the body
    {[status |-> 200, has_length |-> TRUE, length |-> HalfChunk,
      body |-> MaxHalfChunks * HalfChunk]}

DownloadIdle ==
    /\ url_parts = <<"">> /\ folderArg = "<None>"
    /\ catDir = "absent" /\ files = [n \in Names |-> Absent]
    /\ dpc = [c \in Calls |-> "idle"]
    /\ catDir0 = [c \in Calls |-> "absent"]
    /\ files0 = [c \in Calls |-> [n \in Names |-> Absent]]
    /\ resp = [c \in Calls |-> NoResp]
    /\ recv = [c \in Calls |-> 0]
    /\ derr = [c \in Calls |-> "none"]
    /\ gets = [c \in Calls |-> 0]
    /\ reads = [c \in Calls |-> 0]
    /\ replaced = [c \in Calls |-> 0]
    /\ dfaults = 0

DownloadInit ==
    /\ CmpIdle
    /\ MirrorIdle
    /\ RemoteIdle
    /\ OverlapIdle
    /\ UnusedIdle
    /\ url_parts \in UrlPaths
    /\ folderArg \in FolderArgs
    \* an explicit folder comes with the short urls
    /\ ~no_folder(folderArg) => Len(url_parts) <= 2
    /\ catDir \in {"absent", "dir"}
    /\ \E d \in OldFiles \cup {Dir(HalfChunk, 0), Absent},
          t \in {Body(0, HalfChunk), Absent} :
          files = [n \in Names |->
                      IF catDir = "absent" THEN Absent
                      ELSE IF n = DestName THEN d
                      ELSE IF n = TempName THEN t
                      ELSE Absent]
    /\ dpc = [c \in Calls |-> "idle"]
    /\ catDir0 = [c \in Calls |-> catDir]
    /\ files0 = [c \in Calls |-> files]
    /\ resp = [c \in Calls |-> NoResp]
    /\ recv = [c \in Calls |-> 0]
    /\ derr = [c \in Calls |-> "none"]
    /\ gets = [c \in Calls |-> 0]
    /\ reads = [c \in Calls |-> 0]
    /\ replaced = [c \in Calls |-> 0]
    /\ dfaults = 0

DRaise(c, e) ==
    /\ dpc' = [dpc EXCEPT ![c] = "raised"]
    /\ derr' = [derr EXCEPT ![c] = e]

DFault ==
    /\ dfaults < MaxNetFaults
    /\ dfaults' = dfaults + 1

\* no call is between its start and its end
NoneInFlight == \A d \in Calls : dpc[d] \in {"idle", "returned", "raised"}

\* lines 26-40: the folder, its check against ALLOWED_FOLDERS, os.makedirs
DStart(c) ==
    /\ dpc[c] = "idle"
    /\ NoneInFlight
    /\ \A d \in Calls : d < c => dpc[d] # "idle"
    /\ catDir0' = [catDir0 EXCEPT ![c] = catDir]
    /\ files0' = [files0 EXCEPT ![c] = files]
    /\ UNCHANGED <<cvars, mvars, rvars, ovars, uvars, url_parts, folderArg, files, resp, recv, gets,
                   reads, replaced>>
    /\ LET folder == folder_of(url_parts, folderArg)
       IN \/ /\ folder = "IndexError"
             /\ DRaise(c, "IndexError")
             /\ UNCHANGED <<catDir, dfaults>>
          \/ /\ folder # "IndexError"
             /\ folder \notin ALLOWED_FOLDERS
             /\ DRaise(c, "ValueError")
             /\ UNCHANGED <<catDir, dfaults>>
          \/ /\ folder \in ALLOWED_FOLDERS
             /\ \/ /\ catDir' = "dir"
                   /\ dpc' = [dpc EXCEPT ![c] = "get"]
                   /\ UNCHANGED <<derr, dfaults>>
                \/ /\ catDir = "absent"                     \* os.makedirs raises
                   /\ DFault
                   /\ DRaise(c, "OSError")
                   /\ UNCHANGED catDir

\* a check that never finds the file
short_circuit_never(total_size, d) == FALSE

\* line 46: the destination exists with the advertised size
short_circuit(total_size, d) ==
    total_size > 0 /\ d.kind # "absent" /\ d.size = total_size

\* line 44: int(r.headers.get("content-length", 0))
total_size_of(r) == IF r.has_length THEN r.length ELSE 0

\* lines 42-52: requests.get, raise_for_status, the short circuit,
\* open(temp_path, "wb")
DGet(c) ==
    /\ dpc[c] = "get"
    /\ gets' = [gets EXCEPT ![c] = @ + 1]
    /\ UNCHANGED <<cvars, mvars, rvars, ovars, uvars, url_parts, folderArg, catDir, catDir0, files0,
                   recv, reads, replaced>>
    /\ \/ /\ DFault                                         \* no connection
          /\ DRaise(c, "ConnectionError")
          /\ UNCHANGED <<files, resp>>
       \/ \E r \in Responses :
            /\ resp' = [resp EXCEPT ![c] = r]
            /\ \/ /\ r.status # 200                         \* raise_for_status
                  /\ DRaise(c, "HTTPError")
                  /\ UNCHANGED <<files, dfaults>>
               \/ /\ r.status = 200
                  /\ short_circuit(total_size_of(r), files[DestName])
                  /\ dpc' = [dpc EXCEPT ![c] = "returned"]
                  /\ UNCHANGED <<files, derr, dfaults>>
               \/ /\ r.status = 200
                  /\ ~short_circuit(total_size_of(r), files[DestName])
                  /\ \/ /\ files' = [files EXCEPT ![TempName] = Body(c, 0)]
                        /\ dpc' = [dpc EXCEPT ![c] = "stream"]
                        /\ UNCHANGED <<derr, dfaults>>
                     \/ /\ DFault                           \* open raises
                        /\ DRaise(c, "OSError")
                        /\ UNCHANGED files

\* a handler that publishes what was written when the stream breaks
on_stream_error_publish(f, dest, temp) ==
    [f EXCEPT ![dest] = f[temp], ![temp] = Absent]

\* lines 52-58: an exception of iter_content or f.write leaves the with
\* blocks and download_file: the files stay as they are
on_stream_error(f, dest, temp) == f

\* lines 55-58: one turn of the loop over r.iter_content(block_size)
DChunk(c) ==
    /\ dpc[c] = "stream"
    /\ reads' = [reads EXCEPT ![c] = @ + 1]
    /\ UNCHANGED <<cvars, mvars, rvars, ovars, uvars, url_parts, folderArg, catDir, catDir0, files0,
                   resp, gets, replaced>>
    /\ LET n == Min(ChunkSize, resp[c].body - recv[c])
       IN \/ /\ n > 0
             /\ files' = [files EXCEPT ![TempName] = Body(c, @.size + n)]
             /\ recv' = [recv EXCEPT ![c] = @ + n]
             /\ UNCHANGED <<dpc, derr, dfaults>>
          \/ /\ n = 0                                       \* the body is read
             /\ dpc' = [dpc EXCEPT ![c] = "rename"]
             /\ UNCHANGED <<files, recv, derr, dfaults>>
          \/ /\ DFault                                      \* the read or the write raises
             /\ DRaise(c, "OSError")
             /\ files' = on_stream_error(files, DestName, TempName)
             /\ UNCHANGED recv

\* lines 60-64: os.replace(temp_path, dest_path) and the return
DRename(c) ==
    /\ dpc[c] = "rename"
    /\ UNCHANGED <<cvars, mvars, rvars, ovars, uvars, url_parts, folderArg, catDir, catDir0, files0,
                   resp, recv, gets, reads>>
    /\ \/ /\ files[TempName].kind = "absent"
          /\ dpc' = [dpc EXCEPT ![c] = "returned"]
          /\ UNCHANGED <<files, derr, replaced, dfaults>>
       \/ /\ files[TempName].kind # "absent"
          /\ files[DestName].kind # "dir"
          /\ files' = [files EXCEPT ![DestName] = files[TempName], ![TempName] = Absent]
          /\ replaced' = [replaced EXCEPT ![c] = @ + 1]
          /\ dpc' = [dpc EXCEPT ![c] = "returned"]
          /\ UNCHANGED <<derr, dfaults>>
       \/ /\ files[TempName].kind # "absent"
          /\ files[DestName].kind = "dir"                   \* IsADirectoryError
          /\ DRaise(c, "OSError")
          /\ UNCHANGED <<files, replaced, dfaults>>
       \/ /\ files[TempName].kind # "absent"
          /\ DFault                                         \* os.replace raises
          /\ DRaise(c, "OSError")
          /\ UNCHANGED <<files, replaced>>

DownloadNext == \E c \in Calls : DStart(c) \/ DGet(c) \/ DChunk(c) \/ DRename(c)

SpecDownload == DownloadInit /\ [][DownloadNext]_vars

\* ------------------------------------------------- properties of download_file
\* c is the call that started last
Latest(c) == dpc[c] # "idle" /\ \A d \in Calls : d > c => dpc[d] = "idle"

\* C5: at every point during and after a call, the destination path holds
\* what it held before the call or the complete body of the call's response;
\* the body goes to the staging file only, and the one rename onto the
\* destination comes after the whole body is written and the file closed.
C5_DestOldOrComplete ==
    \A c \in Calls :
        Latest(c) =>
            /\ \/ files[DestName] = files0[c][DestName] /\ replaced[c] = 0
               \/ /\ files[DestName] = Body(c, resp[c].body)
                  /\ recv[c] = resp[c].body
                  /\ dpc[c] = "returned"
                  /\ replaced[c] = 1
                  /\ files[TempName].kind = "absent"
            /\ dpc[c] \in {"stream", "rename"} => files[TempName] = Body(c, recv[c])
            /\ \A n \in Names \ {DestName, TempName} : files[n] = files0[c][n]

\* a body of two blocks has replaced an older file at the destination path
C5_Witness ==
    /\ dpc[1] = "returned"
    /\ replaced[1] = 1
    /\ files0[1][DestName].kind = "file"
    /\ resp[1].body > ChunkSize
    /\ files[DestName] = Body(1, resp[1].body)

\* C6: when a call fails (an HTTP error status, a network error, an error
\* writing the staging file, or any other exception), the destination path
\* is as before the call: neither created, nor changed, nor replaced.
C6_FailureLeavesDest ==
    \A c \in Calls :
        (Latest(c) /\ dpc[c] = "raised") =>
            /\ files[DestName] = files0[c][DestName]
            /\ replaced[c] = 0

\* the stream broke after the first block: the staging file is left partial
C6_Witness ==
    /\ dpc[1] = "raised"
    /\ derr[1] = "OSError"
    /\ recv[1] > 0
    /\ recv[1] < resp[1].body
    /\ files[TempName] = Body(1, recv[1])
    /\ files0[1][DestName].kind = "file"

\* the first call downloaded a file as long as the advertised content-length
\* and the second call is answered with the same content-length
SecondCallAfterSuccess ==
    /\ dpc[1] = "returned"
    /\ replaced[1] = 1
    /\ resp[1].has_length
    /\ resp[1].length = resp[1].body
    /\ dpc[2] \notin {"idle", "get"}
    /\ resp[2].status = 200
    /\ resp[2].has_length
    /\ resp[2].length = resp[1].length

\* the second call returns without a read of the body, without a staging
\* file and without a change of the destination
SecondCallSkips ==
    /\ dpc[2] = "returned"
    /\ reads[2] = 0
    /\ replaced[2] = 0
    /\ files = files0[2]

C8_InvalidCategoryFirst ==
    \A c \in Calls :
        (/\ folderArg \in {"<None>", ""}
         /\ Len(url_parts) >= 2
         /\ url_parts[Len(url_parts) - 1] \notin ALLOWED_FOLDERS
         /\ dpc[c] # "idle")
        => /\ dpc[c] = "raised"
           /\ derr[c] = "ValueError"
           /\ gets[c] = 0
           /\ catDir = catDir0[c]
           /\ files = files0[c]

\* https://host/unknown_kind/vae: the last segment is an allowed folder, the
\* one before it is not, and the folder of the downloads does not exist
C8_Witness ==
    /\ url_parts = <<"", "unknown_kind", "vae">>
    /\ folderArg = "<None>"
    /\ dpc[1] = "raised"
    /\ derr[1] = "ValueError"
    /\ catDir = "absent"

\* ------------------------------------------------ mirror_copy: the run
SrcFiles == {File(s, m, "S") : s \in Sizes, m \in TreeMtimes}
\* the second source file: two blocks, the first a whole one
SubFiles == {File(MaxHalfChunks * HalfChunk, MaxMtime, "S")}
DstFilesFor(s) ==
    {File(z, m, "O") : z \in Sizes, m \in TreeMtimes}
    \cup (IF s.kind = "file"
          THEN {File(z, m, "S") : z \in {y \in Sizes : y <= s.size}, m \in TreeMtimes}
          ELSE {})
DstDirs == {Dir(z, m) : z \in {HalfChunk}, m \in TreeMtimes}

\* os.path.exists of the source root in place of os.path.isdir
isdir_exists(kind) == kind \notin {"empty", "missing", "absent"}

\* os.path.isdir(source_folder)
isdir(kind) == kind = "dir"

\* a destination tree: an entry exists only in a directory
TreeOk(d) ==
    /\ d["a/a"].kind # "absent" => d["a"].kind = "dir"
    /\ d["sub/b"].kind # "absent" => d["sub"].kind = "dir"

MirrorInit ==
    /\ CmpIdle
    /\ DownloadIdle
    /\ RemoteIdle
    /\ OverlapIdle
    /\ UnusedIdle
    /\ srcKind \in {"empty", "missing", "file", "dir"}
    /\ dstRoot \in {"empty", "absent", "file", "dir"}
    /\ \E sa \in SrcFiles \cup {Absent}, sb \in SubFiles \cup {Absent} :
         /\ src = [p \in SrcPaths |-> IF p = "a" THEN sa ELSE sb]
         /\ srcKind # "dir" => sa = Absent /\ sb = Absent
         /\ \E da \in DstFilesFor(sa) \cup DstDirs \cup {Absent},
               daa \in {File(HalfChunk, MaxMtime, "O"), Absent},
               ds \in {File(HalfChunk, MaxMtime, "O"), Dir(HalfChunk, MaxMtime), Absent},
               db \in {File(MaxHalfChunks * HalfChunk, MaxMtime, "S"),
                       File(HalfChunk, MaxMtime, "O"), Absent},
               dc \in {File(HalfChunk, MaxMtime, "O"), Absent} :
              /\ dst = [p \in DstPaths |->
                          CASE p = "a" -> da [] p = "a/a" -> daa [] p = "sub" -> ds
                            [] p = "sub/b" -> db [] OTHER -> dc]
              /\ db.data = "S" => sb.kind = "file"
    /\ TreeOk(dst)
    /\ dstRoot # "dir" => dst = [p \in DstPaths |-> Absent]
    /\ dstRoot0 = dstRoot /\ dst0 = dst
    /\ mpc = "start" /\ files_to_copy = <<>> /\ total_bytes = 0 /\ progress_n = 0
    /\ idx = 0 /\ off = 0 /\ err = "none" /\ stat_errs = {} /\ result = NoResult
    /\ prevOk = FALSE /\ ioError = FALSE /\ faults = 0 /\ run = 1


Raise(e) ==
    /\ mpc' = "raised"
    /\ err' = e

\* lines 17-23: the checks of the arguments and
\* os.makedirs(destination_folder, exist_ok=True)
Validate ==
    /\ mpc = "start"
    /\ UNCHANGED <<cvars, dvars, rvars, ovars, uvars, srcKind, src, dst, dstRoot0, dst0, files_to_copy,
                   total_bytes, progress_n, idx, off, stat_errs, result, prevOk, run>>
    /\ \/ /\ srcKind = "empty" \/ dstRoot = "empty"
          /\ Raise("ValueError")
          /\ UNCHANGED <<dstRoot, ioError, faults>>
       \/ /\ srcKind # "empty" /\ dstRoot # "empty"
          /\ ~isdir(srcKind)
          /\ Raise("ValueError")
          /\ UNCHANGED <<dstRoot, ioError, faults>>
       \/ /\ srcKind # "empty" /\ dstRoot # "empty"
          /\ isdir(srcKind)
          /\ \/ /\ dstRoot \in {"dir", "absent"}
                /\ dstRoot' = "dir"
                /\ mpc' = "plan"
                /\ UNCHANGED <<err, ioError, faults>>
             \/ /\ dstRoot = "file"               \* FileExistsError
                /\ Raise("OSError")
                /\ ioError' = TRUE
                /\ UNCHANGED <<dstRoot, faults>>
             \/ /\ dstRoot = "absent"             \* mkdir fails
                /\ faults < MaxFaults
                /\ faults' = faults + 1
                /\ Raise("OSError")
                /\ ioError' = TRUE
                /\ UNCHANGED dstRoot

RECURSIVE SumSizes(_, _)
SumSizes(seq, skip) ==
    IF seq = <<>> THEN 0
    ELSE (IF Head(seq) \in skip THEN 0 ELSE src[Head(seq)].size)
         + SumSizes(Tail(seq), skip)

\* lines 37-46: the files of the walk that need a copy, in walk order
PlanFiles(statErrs) ==
    SelectSeq(WalkOrder,
              LAMBDA p : /\ src[p].kind = "file"
                         /\ needs_copy(src[p], dst[p], p \in statErrs))

Range(seq) == {seq[i] : i \in 1..Len(seq)}

\* lines 36-50: the plan loop.  statErrs: the files whose os.stat raises,
\* sizeErrs: the planned files whose os.path.getsize raises
Plan ==
    /\ mpc = "plan"
    /\ \E statErrs \in SUBSET {p \in SrcPaths : src[p].kind = "file" /\ dst[p].kind # "absent"} :
         \E sizeErrs \in SUBSET Range(PlanFiles(statErrs)) :
            /\ faults + Cardinality(statErrs) + Cardinality(sizeErrs) <= MaxFaults
            /\ faults' = faults + Cardinality(statErrs) + Cardinality(sizeErrs)
            /\ ioError' = (ioError \/ statErrs # {} \/ sizeErrs # {})
            /\ stat_errs' = statErrs
            /\ files_to_copy' = PlanFiles(statErrs)
            /\ total_bytes' = SumSizes(PlanFiles(statErrs), sizeErrs)
    /\ progress_n' = 0
    /\ idx' = 1
    /\ off' = 0
    /\ mpc' = "next"
    /\ UNCHANGED <<cvars, dvars, rvars, ovars, uvars, srcKind, dstRoot, src, dst, dstRoot0, dst0, err, result,
                   prevOk, run>>

\* the entry e put at path p: a new entry changes its directory's mtime
Put(d, p, e) ==
    [q \in DstPaths |->
        IF q = p THEN e
        ELSE IF q = Parent(p) /\ d[p].kind = "absent" /\ d[q].kind = "dir"
             THEN [d[q] EXCEPT !.mtime = WriteTime]
        ELSE d[q]]

\* open(dst_path, "wb"): the file is created or truncated
open_wb(d) == File(0, WriteTime, "S")

\* d.write(chunk)
write(d, n) == [d EXCEPT !.size = @ + n, !.mtime = WriteTime]

\* a handler that removes the file the failed copy left
on_copy_error_remove(e) == Absent

\* lines 79-80: except OSError: pass.  e is what the failed copy2 left at
\* its target
on_copy_error(e) == e

\* shutil.copy2(src_path, dst_path) writes into dst_path when it is a directory
copy2_target(d, p) == IF d[p].kind = "dir" THEN Inside(p) ELSE p

\* a copystat that leaves the times of the destination alone
copystat_none(s, d) == d

\* shutil.copystat(src_path, dst_path)
copystat(s, d) == [d EXCEPT !.mtime = s.mtime]

Cur == files_to_copy[idx]

\* the kind of the directory of dst_path; destination_folder is a directory
\* once line 23 is past
ParentKind(d, p) == IF Parent(p) = "" THEN "dir" ELSE d[Parent(p)].kind

Fault ==
    /\ faults < MaxFaults
    /\ faults' = faults + 1
    /\ ioError' = TRUE

\* line 54: the loop is over and mirror_copy returns
Return ==
    /\ mpc = "next"
    /\ idx > Len(files_to_copy)
    /\ mpc' = "returned"
    /\ UNCHANGED <<cvars, dvars, rvars, ovars, uvars, srcKind, dstRoot, src, dst, dstRoot0, dst0, files_to_copy,
                   total_bytes, progress_n, idx, off, err, stat_errs, result, prevOk,
           ioError, faults, run>>

\* lines 55-59: os.makedirs of the directory of dst_path, then the two opens
Open ==
    /\ mpc = "next"
    /\ idx <= Len(files_to_copy)
    /\ UNCHANGED <<cvars, dvars, rvars, ovars, uvars, srcKind, dstRoot, src, dstRoot0, dst0, files_to_copy,
                   total_bytes, progress_n, idx, stat_errs, prevOk, run>>
    /\ LET p == Cur
           par == Parent(p)
           \* the tree after os.makedirs(os.path.dirname(dst_path), exist_ok=True)
           made == IF ParentKind(dst, p) = "absent"
                   THEN Put(dst, par, Dir(HalfChunk, WriteTime))
                   ELSE dst
       IN \/ /\ ParentKind(dst, p) = "file"              \* FileExistsError, not caught
             /\ Raise("OSError")
             /\ ioError' = TRUE
             /\ result' = [result EXCEPT ![p] = "failed"]
             /\ UNCHANGED <<dst, off, faults>>
          \/ /\ ParentKind(dst, p) = "absent"            \* mkdir fails, not caught
             /\ Fault
             /\ Raise("OSError")
             /\ result' = [result EXCEPT ![p] = "failed"]
             /\ UNCHANGED <<dst, off>>
          \/ /\ ParentKind(dst, p) # "file"
             /\ \/ /\ dst[p].kind # "dir"                 \* both files are open
                   /\ dst' = Put(made, p, open_wb(made[p]))
                   /\ off' = 0
                   /\ mpc' = "chunk"
                   /\ UNCHANGED <<err, result, ioError, faults>>
                \/ /\ dst[p].kind = "dir"                 \* IsADirectoryError
                   /\ dst' = made
                   /\ ioError' = TRUE
                   /\ mpc' = "fallback"
                   /\ UNCHANGED <<off, err, result, faults>>
                \/ /\ Fault                               \* an open raises OSError
                   /\ dst' = made
                   /\ mpc' = "fallback"
                   /\ UNCHANGED <<off, err, result>>

\* lines 60-65: one turn of the chunk loop
Chunk ==
    /\ mpc = "chunk"
    /\ UNCHANGED <<cvars, dvars, rvars, ovars, uvars, srcKind, dstRoot, src, dstRoot0, dst0, files_to_copy,
                   total_bytes, idx, err, stat_errs, result, prevOk, run>>
    /\ LET p == Cur
           n == Min(ChunkSize, src[p].size - off)          \* len(chunk)
       IN \/ /\ n > 0
             /\ dst' = [dst EXCEPT ![p] = write(@, n)]
             /\ off' = off + n
             /\ progress_n' = progress_n + n
             /\ UNCHANGED <<mpc, ioError, faults>>
          \/ /\ n = 0                                      \* if not chunk: break
             /\ mpc' = "stat"
             /\ UNCHANGED <<dst, off, progress_n, ioError, faults>>
          \/ /\ Fault                                      \* read or write raises
             /\ mpc' = "fallback"
             /\ UNCHANGED <<dst, off, progress_n>>

Advance ==
    /\ idx' = idx + 1
    /\ off' = 0
    /\ mpc' = "next"

\* lines 66-69: shutil.copystat, its OSError swallowed
Stat ==
    /\ mpc = "stat"
    /\ Advance
    /\ UNCHANGED <<cvars, dvars, rvars, ovars, uvars, srcKind, dstRoot, src, dstRoot0, dst0, files_to_copy,
                   total_bytes, progress_n, err, stat_errs, prevOk, run>>
    /\ \/ /\ dst' = [dst EXCEPT ![Cur] = copystat(src[Cur], @)]
          /\ result' = [result EXCEPT ![Cur] = "copied"]
          /\ UNCHANGED <<ioError, faults>>
       \/ /\ Fault
          /\ result' = [result EXCEPT ![Cur] = "nostat"]
          /\ UNCHANGED dst

\* what progress.update adds at line 76, before being progress.n of line 73
fallback_update(size, n, before) == Max(0, size - (n - before))

\* lines 70-80: the whole-file copy after an OSError of the chunked copy
Fallback ==
    /\ mpc = "fallback"
    /\ Advance
    /\ UNCHANGED <<cvars, dvars, rvars, ovars, uvars, srcKind, dstRoot, src, dstRoot0, dst0, files_to_copy,
                   total_bytes, err, stat_errs, prevOk, run>>
    /\ LET p == Cur
           before == progress_n
           \* shutil.copy2 onto a directory writes into it
           target == copy2_target(dst, p)
       IN \/ /\ dst' = Put(dst, target,
                           copystat(src[p], File(src[p].size, WriteTime, "S")))
             /\ result' = [result EXCEPT ![p] = IF target = p THEN "fallback" ELSE "intodir"]
             /\ \/ /\ progress_n' = progress_n
                                    + fallback_update(src[p].size, progress_n, before)
                   /\ UNCHANGED <<ioError, faults>>
                \/ /\ Fault                                \* getsize raises
                   /\ UNCHANGED progress_n
          \/ /\ Fault                                      \* copy2 raises
             /\ result' = [result EXCEPT ![p] = "failed"]
             /\ UNCHANGED progress_n
             /\ \/ UNCHANGED dst                           \* before it opened dst
                \/ \E k \in {z \in Sizes : z <= src[p].size} :
                      dst' = Put(dst, target, on_copy_error(File(k, WriteTime, "S")))

\* the next call of mirror_copy, on the same source
Rerun ==
    /\ mpc \in {"returned", "raised"}
    /\ run < MaxRuns
    /\ run' = run + 1
    /\ mpc' = "start"
    /\ dstRoot0' = dstRoot /\ dst0' = dst
    /\ files_to_copy' = <<>> /\ total_bytes' = 0 /\ progress_n' = 0
    /\ idx' = 0 /\ off' = 0 /\ err' = "none" /\ stat_errs' = {} /\ result' = NoResult
    /\ prevOk' = (mpc = "returned" /\ \A p \in SrcPaths : result[p] \in Done)
    /\ UNCHANGED <<cvars, dvars, rvars, ovars, uvars, srcKind, dstRoot, src, dst, ioError, faults>>

MirrorNext ==
    \/ Validate \/ Plan \/ Open \/ Chunk \/ Stat \/ Fallback \/ Return \/ Rerun

SpecMirror == MirrorInit /\ [][MirrorNext]_vars

\* --------------------------------------------------- properties of mirror_copy
\* the bytes of an entry
Content(e) == <<e.kind, e.data, e.size>>
\* the plan of the current run is made
Planned == mpc \in {"next", "chunk", "stat", "fallback", "returned"}
\* the paths the planned copies of this run write: dst_path, or the file in
\* it when a directory stood at dst_path before the run
CopyTargets == {copy2_target(dst0, p) : p \in Range(files_to_copy)}

\* C1: after mirror_copy returns, every source file has a byte-identical file
\* at its relative path under the destination, and every destination file
\* without a counterpart in the source is gone.
C1_MirrorComplete ==
    mpc = "returned" =>
        /\ \A p \in SrcPaths :
              src[p].kind = "file" =>
                  Content(dst[p]) = <<"file", "S", src[p].size>>
        /\ \A q \in DstFilePaths :
              (dst0[q].kind = "file" /\ (q \notin SrcPaths \/ src[q].kind = "absent"))
                  => dst[q].kind = "absent"

\* C3 as stated: the run after a run plans no copy and deletes nothing
C3_SecondRunPlansNothing ==
    (run >= 2 /\ Planned) =>
        /\ files_to_copy = <<>>
        /\ total_bytes = 0
        /\ \A q \in DstPaths : dst0[q].kind # "absent" => dst[q].kind # "absent"

\* C3, amended: when the run before returned with every planned file and its
\* times written to its destination path, and no os.stat raises while this
\* run plans, this run plans no copy, counts no bytes and changes nothing
\* under the destination.
C3_SecondRunPlansNothingAfterSuccess ==
    (run >= 2 /\ Planned /\ prevOk /\ stat_errs = {}) =>
        /\ files_to_copy = <<>>
        /\ total_bytes = 0
        /\ dst = dst0

\* the second run is over, after a first run that copied over an older file
C3_Witness ==
    /\ run = 2
    /\ mpc = "returned"
    /\ prevOk
    /\ stat_errs = {}
    /\ src["a"].kind = "file" /\ src["a"].size > ChunkSize
    /\ Content(dst["a"]) = <<"file", "S", src["a"].size>>
    /\ dst["c"].kind = "file"
    /\ src["sub/b"].kind = "file"
    /\ dst["sub/b"].mtime = src["sub/b"].mtime
    /\ faults > 0

\* C4 as stated: once a planned copy has failed, every file the destination
\* held before the run is there with its content of before the run
C4_FailedRunKeepsContent ==
    (\E p \in SrcPaths : result[p] = "failed") =>
        \A q \in DstPaths :
            dst0[q].kind = "file" => Content(dst[q]) = Content(dst0[q])

\* C4, amended: once a planned copy has failed, no entry of the destination
\* has been deleted: every file and directory of before the run is still
\* there, and a file that is not the target of a planned copy has its
\* content of before the run.
C4_FailedRunDeletesNothing ==
    (\E p \in SrcPaths : result[p] = "failed") =>
        \A q \in DstPaths :
            /\ dst0[q].kind # "absent" => dst[q].kind = dst0[q].kind
            /\ (dst0[q].kind = "file" /\ q \notin CopyTargets)
                  => Content(dst[q]) = Content(dst0[q])

\* the whole-file copy of "a" failed and left a shorter file; the orphan "c"
\* and the file of the other planned copy are still there
C4_Witness ==
    /\ result["a"] = "failed"
    /\ mpc = "returned"
    /\ dst0["a"].kind = "file" /\ dst0["a"].data = "O"
    /\ dst["a"].kind = "file" /\ dst["a"].size < src["a"].size
    /\ dst0["c"].kind = "file" /\ dst["c"] = dst0["c"]
    /\ dst0["sub/b"].kind = "file" /\ result["sub/b"] = "copied"

\* C10: with a source root that is missing or not a directory, mirror_copy
\* raises ValueError at once, and the destination is as it was: the
\* destination root is not created and nothing is planned or copied.
C10_InvalidSourceFailsFast ==
    (srcKind \in {"missing", "file"} /\ mpc # "start") =>
        /\ mpc = "raised"
        /\ err = "ValueError"
        /\ dstRoot = dstRoot0
        /\ dst = dst0
        /\ files_to_copy = <<>>

\* the source root is a file and the destination root does not exist
C10_Witness ==
    /\ srcKind = "file"
    /\ mpc = "raised"
    /\ err = "ValueError"
    /\ dstRoot = "absent"

\* main, lines 90-97: the exit code of the mirror-copy command, -1 while
\* mirror_copy runs
main_exit_code ==
    IF mpc = "returned" THEN 0 ELSE IF mpc = "raised" THEN 1 ELSE 0 - 1
\* main, line 93: "Mirror copy completed." is printed
main_prints_completed == mpc = "returned"

\* the copy of a planned file failed: shutil.copy2 raised after the chunked
\* copy had raised
CopyFailed == \E p \in SrcPaths : result[p] = "failed"

\* C11: when the copy of at least one planned file fails, mirror_copy does
\* not return normally, and the command neither prints "Mirror copy
\* completed." nor exits with code 0.
C11_CopyErrorReported ==
    CopyFailed =>
        /\ mpc # "returned"
        /\ ~main_prints_completed
        /\ main_exit_code # 0

\* C12: a source file whose os.stat raises while it is compared with its
\* destination is in the plan; a stat error never skips a file.
C12_StatErrorPlans ==
    Planned =>
        \A p \in stat_errs :
            \E i \in 1..Len(files_to_copy) : files_to_copy[i] = p

\* os.stat raised for a file whose destination has its size and its second:
\* without the error it would have been skipped
C12_Witness ==
    /\ mpc = "next"
    /\ idx = 1
    /\ "a" \in stat_errs
    /\ dst["a"].kind = "file"
    /\ dst["a"].size = src["a"].size
    /\ int(dst["a"].mtime) = int(src["a"].mtime)
    /\ files_to_copy[1] = "a"

\* the sum of the sizes of the planned copies
PlannedBytes == SumSizes(files_to_copy, {})

\* C14: in a run the bytes-transferred counter never exceeds the bytes
\* total, the sum of the sizes of the planned copies; also not when a chunked
\* copy fails part-way and the whole-file copy is taken.
C14_ProgressWithinTotal ==
    Planned => progress_n <= PlannedBytes

\* in a run the bytes-transferred counter never decreases
C14_ProgressMonotone ==
    [][mpc' # "start" => progress_n' >= progress_n]_vars

\* --------------------------------------------------------- mirror_copy_remote
\* the characters of the arguments: a letter, and the three the parse looks at
Chars == {"u", "@", ":", "/"}
Strings(n) == UNION {[1..k -> Chars] : k \in 0..n}
RemoteSources == {<<>>, <<"u">>, <<"/">>, <<"/", "u">>, <<"/", "u", "/">>}

\* the least index from `from` on at which s holds ch, or 0
Find(s, ch, from) ==
    IF \E i \in from..Len(s) : s[i] = ch
    THEN CHOOSE i \in from..Len(s) : s[i] = ch /\ \A k \in from..(i - 1) : s[k] # ch
    ELSE 0

NoMatch == [ok |-> FALSE, g1 |-> <<>>, g2 |-> <<>>]

\* line 24: re.match(r'^([^@]+@[^:]+):(.+)$', s).  [^@]+ runs to the first
\* "@", which has to follow it; [^:]+ runs from there to the next ":", which
\* has to follow it; .+ is the rest (no line break is among Chars)
re_match(s) ==
    LET at == Find(s, "@", 1)
        colon == IF at = 0 THEN 0 ELSE Find(s, ":", at + 1)
    IN IF at > 1 /\ colon > at + 1 /\ colon < Len(s)
       THEN [ok |-> TRUE, g1 |-> SubSeq(s, 1, colon - 1),
             g2 |-> SubSeq(s, colon + 1, Len(s))]
       ELSE NoMatch

\* a check of the path that lets every path through
startswith_slash_any(s) == TRUE

\* lines 35, 40: s.startswith('/')
startswith_slash(s) == Len(s) > 0 /\ s[1] = "/"

\* lines 56-57: s.rstrip("/")
RECURSIVE rstrip(_)
rstrip(s) == IF Len(s) > 0 /\ s[Len(s)] = "/" THEN rstrip(SubSeq(s, 1, Len(s) - 1)) ELSE s

RemoteInit ==
    /\ CmpIdle
    /\ MirrorIdle
    /\ DownloadIdle
    /\ OverlapIdle
    /\ UnusedIdle
    /\ r_source \in RemoteSources
    /\ r_dest \in Strings(MaxSpecLen)
    /\ rpc = "start" /\ rerr = "none" /\ rline = 0
    /\ ssh_connection = <<>> /\ remote_destination = <<>> /\ ssh_cmd = <<>>
    /\ return_code = 0

RRaise(e, line) ==
    /\ rpc' = "raised"
    /\ rerr' = e
    /\ rline' = line

\* lines 19-61: the checks of the arguments and the command
RParse ==
    /\ rpc = "start"
    /\ UNCHANGED <<cvars, mvars, dvars, ovars, uvars, r_source, r_dest, return_code>>
    /\ LET match == re_match(r_dest)
       IN \/ /\ r_source = <<>> \/ r_dest = <<>>
             /\ RRaise("ValueError", 20)
             /\ UNCHANGED <<ssh_connection, remote_destination, ssh_cmd>>
          \/ /\ r_source # <<>> /\ r_dest # <<>>
             /\ ~match.ok
             /\ RRaise("ValueError", 26)
             /\ UNCHANGED <<ssh_connection, remote_destination, ssh_cmd>>
          \/ /\ r_source # <<>> /\ r_dest # <<>>
             /\ match.ok
             /\ ssh_connection' = match.g1
             /\ remote_destination' = match.g2
             /\ \/ /\ ~startswith_slash(r_source)
                   /\ RRaise("ValueError", 36)
                   /\ UNCHANGED ssh_cmd
                \/ /\ startswith_slash(r_source)
                   /\ ~startswith_slash(match.g2)
                   /\ RRaise("ValueError", 41)
                   /\ UNCHANGED ssh_cmd
                \/ /\ startswith_slash(r_source)
                   /\ startswith_slash(match.g2)
                   /\ ssh_cmd' = <<match.g1, rstrip(r_source) \o <<"/">>,
                                   rstrip(match.g2) \o <<"/">>>>
                   /\ rpc' = "popen"
                   /\ UNCHANGED <<rerr, rline>>

\* lines 67-76 and 140-143: subprocess.Popen(ssh_cmd)
RPopen ==
    /\ rpc = "popen"
    /\ UNCHANGED <<cvars, mvars, dvars, ovars, uvars, r_source, r_dest, ssh_connection,
                   remote_destination, ssh_cmd, return_code>>
    /\ \/ /\ rpc' = "running"
          /\ UNCHANGED <<rerr, rline>>
       \/ RRaise("RuntimeError", 141)                     \* FileNotFoundError: no ssh

\* lines 87-139: the output is read to its end, then process.wait()
RWait ==
    /\ rpc = "running"
    /\ UNCHANGED <<cvars, mvars, dvars, ovars, uvars, r_source, r_dest, ssh_connection,
                   remote_destination, ssh_cmd>>
    /\ \E rc \in {0, 1} :
         /\ return_code' = rc
         /\ \/ /\ rc = 0
               /\ rpc' = "returned"
               /\ UNCHANGED <<rerr, rline>>
            \/ /\ rc # 0
               /\ RRaise("RuntimeError", 137)             \* CalledProcessError

RemoteNext == RParse \/ RPopen \/ RWait

SpecRemote == RemoteInit /\ [][RemoteNext]_vars

\* --------------------------------------------- properties of mirror_copy_remote
\* s is u@h:p with a user u that is not empty and holds no "@", a host h
\* that is not empty and holds no ":", and a path p
IsSpec(s, u, h, pth) ==
    /\ s = u \o <<"@">> \o h \o <<":">> \o pth
    /\ u # <<>> /\ \A i \in 1..Len(u) : u[i] # "@"
    /\ h # <<>> /\ \A i \in 1..Len(h) : h[i] # ":"

\* s has the form user@host:path with an absolute path
\* the three parts of s around the characters at i and j
Cut(s, i, j) ==
    [u |-> SubSeq(s, 1, i - 1), h |-> SubSeq(s, i + 1, j - 1),
     pth |-> SubSeq(s, j + 1, Len(s))]

WellFormed(s) ==
    \E i \in 1..Len(s), j \in 1..Len(s) :
        /\ i < j
        /\ IsSpec(s, Cut(s, i, j).u, Cut(s, i, j).h, Cut(s, i, j).pth)
        /\ Cut(s, i, j).pth # <<>>
        /\ Cut(s, i, j).pth[1] = "/"

\* subprocess.Popen was called
Spawned == rpc \in {"running", "returned"} \/ (rpc = "raised" /\ rerr = "RuntimeError")

\* the arguments passed every check of lines 19-43
Accepted == rpc = "popen" \/ Spawned

C9_WitnessRejected ==
    /\ r_dest = <<"/", "u", "/", "u">>
    /\ r_source = <<"/", "u">>
    /\ rpc = "raised"
    /\ rline = 26

\* ------------------------------------------- download_file: overlapping calls
\* Two calls of download_file that may overlap, for valid arguments.  A name
\* of the folder leads to an inode; a call that has opened the staging file
\* holds its inode and writes at its own position, whatever happens to the
\* name (POSIX).
OFiles == {"x", "y"}
ONames == OFiles \cup {temp_name(f) : f \in OFiles}
\* the inode a call creates has the call's number; one more for a file that
\* is at the destination path before the calls
OldInode == Cardinality(Calls) + 1
Inodes == Calls \cup {OldInode}

\* block k of the body of the url of filename f; a block nobody wrote; the
\* block of the older file
Block(f, k) == <<f, k>>
Hole == <<"hole", 0>>
OldBlock == <<"old", 1>>
\* the whole body of the url of filename f
Complete(f) == [k \in 1..obody[f] |-> Block(f, k)]

\* os.path.exists and os.path.getsize of a name
OStat(n) ==
    IF odir[n] = 0 THEN Absent ELSE File(Len(inode[odir[n]]) * ChunkSize, 0, "S")

\* f.write(chunk) at block i of a file: a write past the end leaves a hole
WriteAt(blocks, i, b) ==
    [k \in 1..Max(Len(blocks), i) |->
        IF k = i THEN b ELSE IF k <= Len(blocks) THEN blocks[k] ELSE Hole]

OverlapInit ==
    /\ CmpIdle
    /\ MirrorIdle
    /\ DownloadIdle
    /\ RemoteIdle
    /\ UnusedIdle
    /\ ofile \in {fn \in [Calls -> OFiles] : fn[1] = "x"}
    /\ obody \in [OFiles -> 0..MaxBlocks]
    /\ \E old \in BOOLEAN :
         /\ odir = [n \in ONames |-> IF n = "x" /\ old THEN OldInode ELSE 0]
         /\ inode = [i \in Inodes |-> IF i = OldInode /\ old THEN <<OldBlock>> ELSE <<>>]
    /\ opc = [c \in Calls |-> "idle"]
    /\ ofd = [c \in Calls |-> 0]
    /\ opos = [c \in Calls |-> 0]
    /\ oerr = [c \in Calls |-> "none"]
    /\ ofaults = 0

ORaise(c, e) ==
    /\ opc' = [opc EXCEPT ![c] = "raised"]
    /\ oerr' = [oerr EXCEPT ![c] = e]

OFault ==
    /\ ofaults < MaxNetFaults
    /\ ofaults' = ofaults + 1

\* lines 26-40 with an allowed folder: the call is at its request
OStart(c) ==
    /\ opc[c] = "idle"
    /\ opc' = [opc EXCEPT ![c] = "get"]
    /\ UNCHANGED <<cvars, mvars, dvars, rvars, uvars, ofile, obody, odir, inode, ofd,
                   opos, oerr, ofaults>>

\* lines 42-52: requests.get, raise_for_status, the short circuit,
\* open(temp_path, "wb")
OGet(c) ==
    /\ opc[c] = "get"
    /\ UNCHANGED <<cvars, mvars, dvars, rvars, uvars, ofile, obody>>
    /\ LET f == ofile[c]
           temp_path == temp_name(f)
           \* open(, "wb") truncates the file of that name, or creates one
           i == IF odir[temp_path] = 0 THEN c ELSE odir[temp_path]
       IN \/ /\ OFault                                  \* RequestException
             /\ ORaise(c, "RequestException")
             /\ UNCHANGED <<odir, inode, ofd, opos>>
          \/ /\ short_circuit(obody[f] * ChunkSize, OStat(f))
             /\ opc' = [opc EXCEPT ![c] = "returned"]
             /\ UNCHANGED <<odir, inode, ofd, opos, oerr, ofaults>>
          \/ /\ ~short_circuit(obody[f] * ChunkSize, OStat(f))
             /\ odir' = [odir EXCEPT ![temp_path] = i]
             /\ inode' = [inode EXCEPT ![i] = <<>>]
             /\ ofd' = [ofd EXCEPT ![c] = i]
             /\ opos' = [opos EXCEPT ![c] = 0]
             /\ opc' = [opc EXCEPT ![c] = "stream"]
             /\ UNCHANGED <<oerr, ofaults>>

\* lines 55-58: one turn of the loop over r.iter_content(block_size); at
\* the end of the body the with block closes the file
OChunk(c) ==
    /\ opc[c] = "stream"
    /\ UNCHANGED <<cvars, mvars, dvars, rvars, uvars, ofile, obody, odir, ofd>>
    /\ LET f == ofile[c]
       IN \/ /\ opos[c] < obody[f]
             /\ inode' = [inode EXCEPT ![ofd[c]] =
                             WriteAt(@, opos[c] + 1, Block(f, opos[c] + 1))]
             /\ opos' = [opos EXCEPT ![c] = @ + 1]
             /\ UNCHANGED <<opc, oerr, ofaults>>
          \/ /\ opos[c] = obody[f]
             /\ opc' = [opc EXCEPT ![c] = "exists"]
             /\ UNCHANGED <<inode, opos, oerr, ofaults>>
          \/ /\ OFault                                  \* the read or the write raises
             /\ ORaise(c, "OSError")
             /\ UNCHANGED <<inode, opos>>

\* line 61: if os.path.exists(temp_path)
OExists(c) ==
    /\ opc[c] = "exists"
    /\ opc' = [opc EXCEPT ![c] =
                  IF odir[temp_name(ofile[c])] # 0 THEN "replace" ELSE "returned"]
    /\ UNCHANGED <<cvars, mvars, dvars, rvars, uvars, ofile, obody, odir, inode, ofd,
                   opos, oerr, ofaults>>

\* lines 62-64: os.replace(temp_path, dest_path) and the return
OReplace(c) ==
    /\ opc[c] = "replace"
    /\ UNCHANGED <<cvars, mvars, dvars, rvars, uvars, ofile, obody, inode, ofd, opos>>
    /\ LET f == ofile[c]
           temp_path == temp_name(f)
       IN \/ /\ odir[temp_path] = 0                     \* FileNotFoundError
             /\ ORaise(c, "FileNotFoundError")
             /\ UNCHANGED <<odir, ofaults>>
          \/ /\ odir[temp_path] # 0
             /\ odir' = [odir EXCEPT ![f] = odir[temp_path], ![temp_path] = 0]
             /\ opc' = [opc EXCEPT ![c] = "returned"]
             /\ UNCHANGED <<oerr, ofaults>>
          \/ /\ odir[temp_path] # 0
             /\ OFault                                  \* os.replace raises
             /\ ORaise(c, "OSError")
             /\ UNCHANGED odir

OverlapNext ==
    \E c \in Calls : OStart(c) \/ OGet(c) \/ OChunk(c) \/ OExists(c) \/ OReplace(c)

SpecOverlap == OverlapInit /\ [][OverlapNext]_vars

\* ------------------------------------ properties of overlapping download_file
\* the call has the staging file open, or is about to rename it
InFlight(c) == opc[c] \in {"stream", "exists", "replace"}

\* two calls in flight have the same file as their staging file
StagingShared ==
    \E c \in Calls, d \in Calls :
        c # d /\ InFlight(c) /\ InFlight(d) /\ ofd[c] = ofd[d]

\* a destination path holds neither the file from before the calls nor the
\* whole body of its url
DestPartial ==
    \E f \in OFiles :
        odir[f] # 0 /\ inode[odir[f]] \notin {<<OldBlock>>, Complete(f)}

\* C13: of two calls that overlap, neither writes to, truncates or renames
\* the staging file of the other, and no destination path ever holds a
\* partly written body.
C13_StagingExclusive ==
    ~StagingShared /\ ~DestPartial

\* -------------------------------------------------------- remove_unused_models
\* The files of the folder in the order of os.walk.  A file has the day of
\* its last access (st_atime) and its content; the content of
\* removed_models.json is the list it holds.
ReportName == "removed_models.json"
UWalk == <<"m1", "sub/m2", ReportName>>
UNames == {UWalk[i] : i \in 1..Len(UWalk)}
\* datetime.now(), in days; every file was last read on a day 0 .. UNow
UNow == MaxDays + 1
UAbsent == [kind |-> "absent", atime |-> 0, data |-> <<>>]
UFile(t, d) == [kind |-> "file", atime |-> t, data |-> d]
UModels == {UFile(t, <<"weights">>) : t \in 0..UNow}
OldReports == {UFile(t, d) : t \in {0, UNow}, d \in {<<>>, <<"m1">>}}

UnusedInit ==
    /\ CmpIdle
    /\ MirrorIdle
    /\ DownloadIdle
    /\ RemoteIdle
    /\ OverlapIdle
    /\ u_folder \in {"dir", "absent"}
    /\ \E f1 \in UModels \cup {UAbsent}, f2 \in UModels \cup {UAbsent},
          rep \in OldReports \cup {UAbsent} :
         u_files = [n \in UNames |->
                       CASE n = "m1" -> f1 [] n = "sub/m2" -> f2 [] OTHER -> rep]
    /\ u_folder = "absent" => u_files = [n \in UNames |-> UAbsent]
    /\ u_files0 = u_files
    /\ u_days \in 0..MaxDays
    /\ upc = "start" /\ u_stat_errs = {} /\ paths = <<>> /\ removed_models = <<>>
    /\ uerr = "none" /\ ufaults = 0

\* line 40: date < datetime.now() - timedelta(days=days)
older_than(t, days) == t < UNow - days

\* lines 16-32: the files of the walk whose os.stat does not raise
last_time_files_read(statErrs) ==
    SelectSeq(UWalk, LAMBDA n : u_files[n].kind = "file" /\ n \notin statErrs)

\* lines 35-40
get_paths_older_than(statErrs, days) ==
    SelectSeq(last_time_files_read(statErrs),
              LAMBDA n : older_than(u_files[n].atime, days))

\* line 50: paths = get_paths_older_than(folder, days)
UScan ==
    /\ upc = "start"
    /\ \E statErrs \in SUBSET {n \in UNames : u_files[n].kind = "file"} :
         /\ ufaults + Cardinality(statErrs) <= MaxFaults
         /\ ufaults' = ufaults + Cardinality(statErrs)
         /\ u_stat_errs' = statErrs
         /\ paths' = get_paths_older_than(statErrs, u_days)
    /\ upc' = "loop"
    /\ UNCHANGED <<cvars, mvars, dvars, rvars, ovars, u_folder, u_files, u_files0,
                   u_days, removed_models, uerr>>

\* a loop body that deletes the file
on_path_remove(fs, n) == [fs EXCEPT ![n] = UAbsent]

\* line 53: # os.remove(path)
on_path(fs, n) == fs

\* the files after the loop body has run for every path of the list
RECURSIVE after_loop(_, _)
after_loop(fs, seq) ==
    IF seq = <<>> THEN fs ELSE after_loop(on_path(fs, Head(seq)), Tail(seq))

\* lines 51-54: the loop over paths
ULoop ==
    /\ upc = "loop"
    /\ u_files' = after_loop(u_files, paths)
    /\ removed_models' = paths
    /\ upc' = "write"
    /\ UNCHANGED <<cvars, mvars, dvars, rvars, ovars, u_folder, u_files0, u_days,
                   u_stat_errs, paths, uerr, ufaults>>

\* lines 55-56 and 43-46: write_list_in_json and the return
UWrite ==
    /\ upc = "write"
    /\ UNCHANGED <<cvars, mvars, dvars, rvars, ovars, u_folder, u_files0, u_days,
                   u_stat_errs, paths, removed_models>>
    /\ \/ /\ u_folder = "absent"                         \* FileNotFoundError
          /\ upc' = "raised"
          /\ uerr' = "OSError"
          /\ UNCHANGED <<u_files, ufaults>>
       \/ /\ u_folder = "dir"
          /\ u_files' = [u_files EXCEPT ![ReportName] = UFile(UNow, removed_models)]
          /\ upc' = "returned"
          /\ UNCHANGED <<uerr, ufaults>>
       \/ /\ u_folder = "dir"                            \* open raises
          /\ ufaults < MaxFaults
          /\ ufaults' = ufaults + 1
          /\ upc' = "raised"
          /\ uerr' = "OSError"
          /\ UNCHANGED u_files
       \/ /\ u_folder = "dir"                            \* the write raises
          /\ ufaults < MaxFaults
          /\ ufaults' = ufaults + 1
          /\ u_files' = [u_files EXCEPT ![ReportName] = UFile(UNow, <<>>)]
          /\ upc' = "raised"
          /\ uerr' = "OSError"

UnusedNext == UScan \/ ULoop \/ UWrite

SpecUnused == UnusedInit /\ [][UnusedNext]_vars

\* ---------------------------------------- properties of remove_unused_models
\* the files of the folder that were last read more than u_days days ago
\* and whose os.stat did not raise, as a list in walk order
IsReport(seq) ==
    /\ \A n \in UNames :
          (\E i \in 1..Len(seq) : seq[i] = n)
              <=> /\ u_files0[n].kind = "file"
                  /\ n \notin u_stat_errs
                  /\ u_files0[n].atime + u_days < UNow
    /\ \A i \in 1..Len(seq), j \in 1..Len(seq) : i < j => seq[i] # seq[j]

\* the list is in removed_models.json and is returned
Reported ==
    /\ IsReport(removed_models)
    /\ u_files[ReportName].kind = "file"
    /\ u_files[ReportName].data = removed_models

\* the file n of before the call is there with its content
Kept(n) ==
    u_files0[n].kind = "file" =>
        u_files[n].kind = "file" /\ u_files[n].data = u_files0[n].data

CmpRecs == {File(s, m, "O") : s \in Sizes, m \in Mtimes}

CmpInit ==
    /\ cmpSrc \in CmpRecs
    /\ cmpDst \in CmpRecs \cup {Absent}
    /\ cmpErr \in BOOLEAN
    /\ cmpCalled = FALSE
    /\ cmpOut = FALSE
    /\ MirrorIdle
    /\ DownloadIdle
    /\ RemoteIdle
    /\ OverlapIdle
    /\ UnusedIdle

CallNeedsCopy ==
    /\ ~cmpCalled
    /\ cmpCalled' = TRUE
    /\ cmpOut' = needs_copy(cmpSrc, cmpDst, cmpErr)
    /\ UNCHANGED <<cmpSrc, cmpDst, cmpErr, mvars, dvars, rvars, ovars, uvars>>

CmpNext == CallNeedsCopy

SpecCmp == CmpInit /\ [][CmpNext]_vars

\* the whole second a time of t ticks lies in, counted toward zero
WholeSecond(t) ==
    CHOOSE k \in (0 - MaxMtime - 1)..(MaxMtime + 1) :
        /\ t >= 0 => k * TicksPerSecond <= t /\ t < (k + 1) * TicksPerSecond
        /\ t < 0 => (k - 1) * TicksPerSecond < t /\ t <= k * TicksPerSecond

\* C2: for every pair of file records that os.stat delivers, needs_copy is
\* false exactly when the destination exists with the size of the source and
\* a modification time in the same whole second; it is true when the sizes
\* differ, when the seconds differ and when the destination is absent.
C2_NeedsCopyExact ==
    (cmpCalled /\ ~cmpErr) =>
        /\ (cmpOut = FALSE) <=>
              /\ cmpDst.kind # "absent"
              /\ cmpDst.size = cmpSrc.size
              /\ WholeSecond(cmpDst.mtime) = WholeSecond(cmpSrc.mtime)
        /\ cmpDst.kind = "absent" => cmpOut = TRUE
        /\ cmpDst.size # cmpSrc.size => cmpOut = TRUE
        /\ WholeSecond(cmpDst.mtime) # WholeSecond(cmpSrc.mtime) => cmpOut = TRUE

\* an up-to-date destination whose raw mtime differs within the second
C2_Witness ==
    /\ cmpCalled
    /\ cmpOut = FALSE
    /\ ~cmpErr
    /\ cmpDst.kind = "file"
    /\ cmpDst.mtime # cmpSrc.mtime
    /\ cmpDst.mtime < 0
    /\ cmpSrc.mtime > 0

====
